---- MODULE Spec2Model ----
(***************************************************************************)
(* Model of the CLIP embedding service of src/clip_api.py: a FastAPI       *)
(* application served by one uvicorn process (one asyncio event loop).     *)
(* POST /embeddings and GET /health are modelled; GET /examples returns a  *)
(* constant and touches no state.                                          *)
(*                                                                         *)
(* Strings that the code handles character by character (the base64        *)
(* input) are sequences of one-character strings; the seven characters     *)
(* "base64," that the code searches for are kept as one element, Marker.   *)
(* The string has no border (no proper prefix of it is also a suffix), so  *)
(* its occurrences never overlap and never straddle a place where a        *)
(* marker-free string is appended to it.                                   *)
(***************************************************************************)
EXTENDS Integers, Sequences, FiniteSets, TLC

\* ------------------------------------------------------------ bounds

\* Number of clients that may have a request in flight at once.
NumClients == 2
\* Longest base64 payload (in characters) drawn in SpecB64.
MaxB64Len == 5
\* Longest data-URL header (characters before "base64,") drawn in SpecB64.
MaxPrefixLen == 1
\* How many BPE tokens beyond the tokenizer's capacity the longest text has.
TextExcess == 1

\* ------------------------------------------------- program constants

\* requests.get(url, timeout=10)
TIMEOUT == 10
\* Output width of the ViT-B/32 encoders loaded by clip.load("ViT-B/32").
ModelWidth == 512
\* clip.tokenize(texts) with its default context_length.
ContextLength == 77

\* -------------------------------------------------------- characters

Marker == "base64,"
Pad == "="
\* Characters of the base64 alphabet drawn by the model, with their values.
DigitChars == {"/", "w"}
\* A character outside the base64 alphabet (such as "!", "-", ":", "\n").
Junk == "!"
PayloadChars == DigitChars \cup {Pad, Junk}

\* binascii's table_a2b_base64, restricted to the characters drawn.
B64Index(ch) == IF ch = "/" THEN 63 ELSE IF ch = "w" THEN 48 ELSE 64

\* All sequences over S of length at most n.
SeqsUpTo(S, n) == UNION {[1..k -> S] : k \in 0..n}

\* ----------------------------------------------------------- values

\* A Python str, as the tuple of the pieces it is formatted from.
Str(parts) == [type |-> "str", text |-> parts]
\* An exception object: its class and str(e).
Exc(cls, msg) == [type |-> "exception", class |-> cls, status_code |-> 0, msg |-> msg]
\* fastapi.HTTPException(status_code, detail); str(e) is "<status>: <detail>".
HTTPException(code, detail) ==
    [type |-> "exception", class |-> "HTTPException", status_code |-> code,
     msg |-> <<ToString(code)>> \o detail, detail |-> Str(detail)]
Ok(v) == [ok |-> TRUE, value |-> v]
Raise(e) == [ok |-> FALSE, exc |-> e]

\* ---------------------------------------------------- base64 decode

\* The characters up to the first marker, or all of them.
RECURSIVE UpToMarker(_)
UpToMarker(s) ==
    IF s = <<>> \/ Head(s) = Marker THEN <<>>
    ELSE <<Head(s)>> \o UpToMarker(Tail(s))

\* Mutant of AfterFirstMarker: split('base64,')[0], the characters before the
\* first marker.
AfterFirstMarker_mut(s) == UpToMarker(s)

\* str.split('base64,')[1]: the characters after the first marker, up to the
\* next marker or the end.
RECURSIVE AfterFirstMarker(_)
AfterFirstMarker(s) ==
    IF Head(s) = Marker THEN UpToMarker(Tail(s))
    ELSE AfterFirstMarker(Tail(s))

HasMarker(s) == \E i \in 1..Len(s) : s[i] = Marker

\* binascii.a2b_base64 in its default, non-strict mode, as base64.b64decode
\* calls it: characters outside the alphabet are skipped, a pad sequence that
\* completes a group ends the parse, an incomplete last group is an error.
\* st = [quad_pos, leftchar, pads, out].
RECURSIVE a2b_scan(_, _)
a2b_scan(s, st) ==
    IF s = <<>> THEN
        IF st.quad_pos = 0 THEN Ok(st.out)
        ELSE IF st.quad_pos = 1
             THEN Raise(Exc("binascii.Error", <<"Invalid base64-encoded string">>))
             ELSE Raise(Exc("binascii.Error", <<"Incorrect padding">>))
    ELSE LET ch == Head(s) IN
        IF ch = Pad THEN
            IF st.quad_pos >= 2 /\ st.quad_pos + st.pads + 1 >= 4
            THEN Ok(st.out)
            ELSE a2b_scan(Tail(s),
                          [st EXCEPT !.pads = IF st.quad_pos >= 2 THEN @ + 1 ELSE @])
        ELSE LET v == B64Index(ch) IN
            IF v >= 64 THEN a2b_scan(Tail(s), st)
            ELSE a2b_scan(Tail(s),
                CASE st.quad_pos = 0 ->
                       [quad_pos |-> 1, leftchar |-> v, pads |-> 0, out |-> st.out]
                  [] st.quad_pos = 1 ->
                       [quad_pos |-> 2, leftchar |-> v % 16, pads |-> 0,
                        out |-> Append(st.out, (st.leftchar * 4 + v \div 16) % 256)]
                  [] st.quad_pos = 2 ->
                       [quad_pos |-> 3, leftchar |-> v % 4, pads |-> 0,
                        out |-> Append(st.out, (st.leftchar * 16 + v \div 4) % 256)]
                  [] st.quad_pos = 3 ->
                       [quad_pos |-> 0, leftchar |-> 0, pads |-> 0,
                        out |-> Append(st.out, (st.leftchar * 64 + v) % 256)])

\* Mutant of b64decode: missing padding is supplied before decoding.
b64decode_mut(s) ==
    a2b_scan(s \o <<Pad, Pad>>, [quad_pos |-> 0, leftchar |-> 0, pads |-> 0, out |-> <<>>])

b64decode(s) ==
    a2b_scan(s, [quad_pos |-> 0, leftchar |-> 0, pads |-> 0, out |-> <<>>])

\* ------------------------------------------- external collaborators

None == [type |-> "none"]

\* An embedding: ModelWidth numbers determined by the weights and the input.
Vector(seed) == [i \in 1..ModelWidth |-> (seed + i) % 5]

RECURSIVE Sum(_)
Sum(s) == IF s = <<>> THEN 0 ELSE Head(s) + Sum(Tail(s))

\* A text input is a string, kept as what the tokenizer sees of it: its
\* content and the number of BPE tokens it encodes to.
Text(content, ntok) == [content |-> content, ntok |-> ntok]
Contents == {"a photo of a cat", "a dog"}
ContentSeed(content) == IF content = "a photo of a cat" THEN 1 ELSE 3

\* Mutant of tokenize: truncate=True, a long text is cut instead of refused.
tokenize_mut(text) == Ok([type |-> "tokens", of |-> text])

\* clip.tokenize([text]): start and end tokens are added around the encoded
\* text; more than context_length tokens raise (truncate defaults to False).
tokenize(text) ==
    IF text.ntok + 2 > ContextLength
    THEN Raise(Exc("RuntimeError", <<"Input", text.content, "is too long for context length",
                                     ToString(ContextLength)>>))
    ELSE Ok([type |-> "tokens", of |-> text])

\* model.encode_text(text_input).cpu().numpy().tolist()[0]
encode_text(m, tokens) == Ok(Vector(m + ContentSeed(tokens.of.content) + tokens.of.ntok))

\* PIL.Image.open(io.BytesIO(image_bytes)): identifies the format from the
\* leading bytes (here: the first byte of a JPEG), without decoding pixels.
Image_open(bytes) ==
    IF bytes # <<>> /\ bytes[1] = 255
    THEN Ok([type |-> "image", data |-> bytes])
    ELSE Raise(Exc("UnidentifiedImageError", <<"cannot identify image file">>))

\* preprocess(image).unsqueeze(0) then model.encode_image(...).tolist()[0]:
\* preprocessing decodes the pixels and raises on a file that is cut short
\* (here: an identified file of more than one byte whose last byte is not 255).
encode_image(m, image) ==
    IF Len(image.data) > 1 /\ image.data[Len(image.data)] # 255
    THEN Raise(Exc("OSError", <<"image file is truncated">>))
    ELSE Ok(Vector(m + Sum(image.data)))

\* What the network can answer to requests.get(url, timeout=10) once the call
\* has blocked for `waited` seconds.  "unreachable": no host answers; the
\* attempt fails at once (no route, no address) or nothing comes back and the
\* connect timeout expires.
\* "up": a server answers with a status and a body, or stalls until the read
\* timeout expires (a server that keeps the connection busy past the timeout
\* by sending a few bytes at a time is not drawn).
URLs == {"http://unreachable/cat.jpg", "http://up/cat.jpg"}
Unreachable(url) == url = "http://unreachable/cat.jpg"
Statuses == {200, 300, 404}
Bodies == {<<255>>, <<255, 15>>, <<15>>}
NetError(cls) == [type |-> "outcome", kind |-> "error", exc |-> Exc(cls, <<cls>>)]
\* Mutant of timeout_expired: requests.get(url) without timeout never gives up.
timeout_expired_mut(w) == FALSE

\* timeout=10: the blocked socket operation gives up after TIMEOUT seconds.
timeout_expired(w) == w >= TIMEOUT
Outcomes(url, w) ==
    IF Unreachable(url)
    THEN (IF w = 0 THEN {NetError("ConnectionError")} ELSE {})
         \cup (IF timeout_expired(w) THEN {NetError("ConnectTimeout")} ELSE {})
    ELSE {[type |-> "outcome", kind |-> "response", status_code |-> st, content |-> b] :
              st \in Statuses, b \in Bodies}
         \cup (IF timeout_expired(w) THEN {NetError("ReadTimeout")} ELSE {})

\* Mutant of raise_for_status: the call is left out.
raise_for_status_mut(response) == Ok(None)

\* requests.Response.raise_for_status(): HTTPError for 4xx and 5xx.
raise_for_status(response) ==
    IF 400 <= response.status_code /\ response.status_code < 600
    THEN Raise(Exc("HTTPError", <<ToString(response.status_code), "Error for url">>))
    ELSE Ok(None)

\* ------------------------------------------------------ the handlers

download_image(outcome) ==
    IF outcome.kind = "error"
    THEN Raise(HTTPException(422, <<"Error downloading image">> \o outcome.exc.msg))
    ELSE LET checked == raise_for_status(outcome) IN
         IF checked.ok THEN Ok(outcome.content)
         ELSE Raise(HTTPException(422, <<"Error downloading image">> \o checked.exc.msg))

process_base64_image(base64_string) ==
    LET stripped == IF HasMarker(base64_string)
                    THEN AfterFirstMarker(base64_string) ELSE base64_string
        decoded == b64decode(stripped)
    IN  IF decoded.ok THEN decoded
        ELSE Raise(HTTPException(422, <<"Error processing base64 image">> \o decoded.exc.msg))

\* Mutant of success_response: the dimension is taken from the outer list of
\* tolist(), the batch of one.
success_response_mut(embedding) ==
    [status_code |-> 200,
     body |-> [status |-> "success", embeddings |-> embedding,
               embedding_dimension |-> Len(<<embedding>>)]]

\* The return statement of get_embeddings, rendered by FastAPI as a 200.
success_response(embedding) ==
    [status_code |-> 200,
     body |-> [status |-> "success", embeddings |-> embedding,
               embedding_dimension |-> Len(embedding)]]

\* Mutant of get_embeddings_except: an HTTPException passes through, anything
\* else is left to the framework, which answers 500.
get_embeddings_except_mut(e) ==
    IF e.class = "HTTPException"
    THEN [status_code |-> e.status_code, body |-> [detail |-> e.detail]]
    ELSE [status_code |-> 500, body |-> [detail |-> Str(<<"Internal Server Error">>)]]

\* except Exception as e: raise HTTPException(status_code=422, detail=str(e)),
\* rendered by FastAPI as that status with {"detail": ...}.
get_embeddings_except(e) ==
    LET raised == HTTPException(422, e.msg) IN
    [status_code |-> raised.status_code, body |-> [detail |-> raised.detail]]

\* Mutant of health_check: the device is written out instead of read.
health_check_mut(dev) ==
    [status_code |-> 200,
     body |-> [status |-> "healthy", device |-> "cuda", model |-> "ViT-B/32"]]

health_check(dev) ==
    [status_code |-> 200,
     body |-> [status |-> "healthy", device |-> dev, model |-> "ViT-B/32"]]

\* ------------------------------------------------------------ state

VARIABLES
    cuda_available, \* torch.cuda.is_available() on this machine
    device,         \* the module-level device
    model,          \* the module-level model: the version of its weights
    pc,             \* per client: where its request is
    req,            \* per client: the request it sent
    local,          \* per client: the local variables of its handler
    resp,           \* per client: the response to its request
    queue,          \* requests accepted and waiting for the event loop, in order
    waited,         \* seconds the running requests.get has blocked so far
    latency,        \* per client: seconds its request has been in flight (FairSpec)
    any_failed      \* whether some request has been answered 422 so far

vars == <<cuda_available, device, model, pc, req, local, resp, queue, waited,
          latency, any_failed>>

Clients == 1..NumClients

NoLocal == [arg |-> None, fetched |-> None, prepared |-> None, raised |-> None,
            after_failure |-> FALSE]

\* ---------------------------------------------------------- requests

TextInputs ==
    {Text(c, n) : c \in Contents,
                  n \in {0, ContextLength - 2, ContextLength - 2 + TextExcess}}
Base64Samples ==
    { <<"/", "w", "=", "=">>,
      <<"d", "a", "t", "a", ":", Marker, "/", "w", "=", "=">>,
      <<"/", "!", "w", "=", "=">>,
      <<"/", "w", "/", "=">>,
      <<"/", "w", "=">> }
PostRequests ==
    {[method |-> "POST", path |-> "/embeddings", type |-> "text", input |-> t] :
        t \in TextInputs}
    \cup {[method |-> "POST", path |-> "/embeddings", type |-> "image_url", input |-> u] :
        u \in URLs}
    \cup {[method |-> "POST", path |-> "/embeddings", type |-> "image_base64", input |-> b] :
        b \in Base64Samples}
HealthRequest == [method |-> "GET", path |-> "/health", type |-> "none", input |-> None]
Requests == PostRequests \cup {HealthRequest}
\* Client 1 sends any of the requests; the other clients load the server with
\* one request of each kind of outcome: a text that embeds, a text that the
\* tokenizer refuses, a URL that does not answer, a health check.
BackgroundRequests ==
    {r \in Requests :
        \/ r.path = "/health"
        \/ r.type = "text" /\ r.input.content = "a photo of a cat" /\ r.input.ntok # 0
        \/ r.type = "image_url" /\ Unreachable(r.input)}
RequestsOf(c) == IF c = 1 THEN Requests ELSE BackgroundRequests

\* ------------------------------------------------------------ actions

\* Module import: device and model are set once.
Init ==
    /\ cuda_available \in BOOLEAN
    /\ device = IF cuda_available THEN "cuda" ELSE "cpu"
    /\ model = 0
    /\ pc = [c \in Clients |-> "idle"]
    /\ req = [c \in Clients |-> None]
    /\ local = [c \in Clients |-> NoLocal]
    /\ resp = [c \in Clients |-> None]
    /\ queue = <<>>
    /\ waited = 0
    /\ latency = [c \in Clients |-> 0]
    /\ any_failed = FALSE

\* Mutant of loop_busy: the blocking calls are awaited (or run in a worker
\* thread), so the loop is free while a handler is inside one.
loop_busy_mut == FALSE

\* The handlers are coroutines that never suspend: requests.get and the model
\* calls block the thread of the event loop, so while one handler is in its
\* download or its inference the loop starts no other.
loop_busy == \E c \in Clients : pc[c] \in {"download", "inference"}

\* Mutant of model_after: the call leaves the module-level model changed.
model_after_mut(m, request) == (m + 1) % 2

\* What the handler does to the module-level model: nothing (the weights are
\* only read, under torch.no_grad()).
model_after(m, request) == m

\* The handler ends: the response goes out.
Finish(c, response, loc) ==
    /\ pc' = [pc EXCEPT ![c] = "done"]
    /\ resp' = [resp EXCEPT ![c] = response]
    /\ local' = [local EXCEPT ![c] = loc]
    /\ any_failed' = (any_failed \/ response.status_code = 422)
    /\ latency' = [latency EXCEPT ![c] = 0]

\* The handler ends in its except clause with exception e raised at `where`.
Fail(c, e, loc) ==
    Finish(c, get_embeddings_except(e), [loc EXCEPT !.raised = e])

\* A decoded or downloaded image is opened; the handler goes on to inference.
OpenImage(c, bytes, loc) ==
    LET opened == Image_open(bytes) IN
    IF opened.ok
    THEN /\ pc' = [pc EXCEPT ![c] = "inference"]
         /\ local' = [local EXCEPT ![c] = [loc EXCEPT !.prepared = opened.value]]
         /\ UNCHANGED <<resp, any_failed, latency>>
    ELSE Fail(c, opened.exc, loc)

\* A client's request arrives and passes the schema validation.
Receive(c, r) ==
    /\ pc[c] \in {"idle", "done"}
    /\ pc' = [pc EXCEPT ![c] = "received"]
    /\ req' = [req EXCEPT ![c] = r]
    /\ resp' = [resp EXCEPT ![c] = None]
    /\ local' = [local EXCEPT ![c] = NoLocal]
    /\ latency' = [latency EXCEPT ![c] = 0]
    /\ queue' = Append(queue, c)
    /\ UNCHANGED <<cuda_available, device, model, waited, any_failed>>

\* The event loop runs the handler of the oldest waiting request up to its
\* first blocking call.
Begin(c) ==
    /\ queue # <<>> /\ Head(queue) = c
    /\ ~loop_busy
    /\ queue' = Tail(queue)
    /\ LET loc == [NoLocal EXCEPT !.after_failure = any_failed] IN
       CASE req[c].path = "/health" ->
              /\ Finish(c, health_check(device), loc)
              /\ UNCHANGED waited
         [] req[c].type = "text" ->
              LET tokens == tokenize(req[c].input)
                  loc2 == [loc EXCEPT !.arg = req[c].input] IN
              /\ IF tokens.ok
                 THEN /\ pc' = [pc EXCEPT ![c] = "inference"]
                      /\ local' = [local EXCEPT ![c] = [loc2 EXCEPT !.prepared = tokens.value]]
                      /\ UNCHANGED <<resp, any_failed, latency>>
                 ELSE Fail(c, tokens.exc, loc2)
              /\ UNCHANGED waited
         [] req[c].type = "image_url" ->
              /\ pc' = [pc EXCEPT ![c] = "download"]
              /\ local' = [local EXCEPT ![c] = [loc EXCEPT !.arg = req[c].input]]
              /\ waited' = 0
              /\ UNCHANGED <<resp, any_failed, latency>>
         [] req[c].type = "image_base64" ->
              LET bytes == process_base64_image(req[c].input)
                  loc2 == [loc EXCEPT !.arg = req[c].input] IN
              /\ IF bytes.ok THEN OpenImage(c, bytes.value, loc2)
                 ELSE Fail(c, bytes.exc, loc2)
              /\ UNCHANGED waited
    /\ UNCHANGED <<cuda_available, device, model, req>>

\* The clock is read every half timeout.
Tick == TIMEOUT \div 2

\* Time passes while requests.get blocks and its timeout has not expired;
\* nothing is counted beyond twice the timeout.
Clock(timed) ==
    /\ \E c \in Clients : pc[c] = "download"
    /\ ~timeout_expired(waited)
    /\ waited < 2 * TIMEOUT
    /\ waited' = waited + Tick
    /\ latency' = IF timed
                  THEN [c \in Clients |->
                          IF pc[c] \in {"received", "download", "inference"}
                             /\ latency[c] < 2 * TIMEOUT
                          THEN latency[c] + Tick ELSE latency[c]]
                  ELSE latency
    /\ UNCHANGED <<cuda_available, device, model, pc, req, local, resp, queue, any_failed>>

\* requests.get returns or raises; the handler runs on to its next blocking
\* call (the inference) or to its end.
DownloadReturn(c) ==
    /\ pc[c] = "download"
    /\ \E outcome \in Outcomes(req[c].input, waited) :
         LET bytes == download_image(outcome)
             loc == [local[c] EXCEPT !.fetched = outcome] IN
         IF bytes.ok THEN OpenImage(c, bytes.value, loc)
         ELSE Fail(c, bytes.exc, loc)
    /\ waited' = 0
    /\ UNCHANGED <<cuda_available, device, model, req, queue>>

\* The model call returns or raises; the handler returns or ends in its except.
Infer(c) ==
    /\ pc[c] = "inference"
    /\ LET embedding == IF req[c].type = "text"
                        THEN encode_text(model, local[c].prepared)
                        ELSE encode_image(model, local[c].prepared) IN
       IF embedding.ok THEN Finish(c, success_response(embedding.value), local[c])
       ELSE Fail(c, embedding.exc, local[c])
    /\ model' = model_after(model, req[c])
    /\ UNCHANGED <<cuda_available, device, req, queue, waited>>

Next ==
    \/ \E c \in Clients : \E r \in RequestsOf(c) : Receive(c, r)
    \/ \E c \in Clients : Begin(c)
    \/ Clock(FALSE)
    \/ \E c \in Clients : DownloadReturn(c)
    \/ \E c \in Clients : Infer(c)

Spec == Init /\ [][Next]_vars

\* ------------------------------------------------- claims under Spec

IsPost(c) == pc[c] # "idle" /\ req[c].path = "/embeddings"
Done(c) == pc[c] = "done"
Mentions(detail, piece) == \E i \in 1..Len(detail.text) : detail.text[i] = piece

\* C1: every failure raised downstream of the schema validation of a
\* POST /embeddings request (download, base64 decoding, image parsing,
\* tokenization, inference) ends in a 422 whose detail is a string; a request
\* ends 200 only when nothing was raised, and never with another status.
C1_FailuresAre422 ==
    \A c \in Clients : (IsPost(c) /\ Done(c)) =>
        /\ resp[c].status_code \in {200, 422}
        /\ (local[c].raised.type = "exception") <=> (resp[c].status_code = 422)
        /\ resp[c].status_code = 422 =>
              /\ DOMAIN resp[c].body = {"detail"}
              /\ resp[c].body.detail.type = "str"

\* A request whose inference raised has been answered.
C1_Witness ==
    \E c \in Clients : IsPost(c) /\ Done(c) /\ local[c].raised.type = "exception"
                       /\ local[c].raised.class = "OSError"

\* C2: every 200 response of POST /embeddings has status "success" and an
\* embedding_dimension equal to the length of its embeddings list.
C2_DimensionIsLength ==
    \A c \in Clients : (IsPost(c) /\ Done(c) /\ resp[c].status_code = 200) =>
        /\ resp[c].body.status = "success"
        /\ resp[c].body.embedding_dimension = Len(resp[c].body.embeddings)

\* An image request and a text request have both been answered 200.
C2_Witness ==
    \E c, d \in Clients :
        /\ IsPost(c) /\ Done(c) /\ resp[c].status_code = 200 /\ req[c].type = "text"
        /\ IsPost(d) /\ Done(d) /\ resp[d].status_code = 200 /\ req[d].type # "text"

\* C3 as stated: every text request, whatever the string, is answered 200 with
\* ModelWidth embeddings and embedding_dimension = ModelWidth.
C3_Original ==
    \A c \in Clients : (IsPost(c) /\ Done(c) /\ req[c].type = "text") =>
        /\ resp[c].status_code = 200
        /\ resp[c].body.embedding_dimension = ModelWidth
        /\ Len(resp[c].body.embeddings) = ModelWidth

\* C3 amended: the tokenizer is given the request's string unchanged; a text
\* that encodes to at most ContextLength - 2 tokens is answered 200 with
\* ModelWidth embeddings and embedding_dimension = ModelWidth; a longer text is
\* answered 422.
C3_TextWidth ==
    \A c \in Clients : (IsPost(c) /\ req[c].type = "text") =>
        /\ pc[c] \in {"inference", "done"} => local[c].arg = req[c].input
        /\ pc[c] = "inference" => local[c].prepared.of = req[c].input
        /\ Done(c) =>
              IF req[c].input.ntok + 2 <= ContextLength
              THEN /\ resp[c].status_code = 200
                   /\ resp[c].body.embedding_dimension = ModelWidth
                   /\ Len(resp[c].body.embeddings) = ModelWidth
              ELSE resp[c].status_code = 422

\* A text of exactly the tokenizer's capacity has been embedded.
C3_Witness ==
    \E c \in Clients : IsPost(c) /\ Done(c) /\ req[c].type = "text"
                       /\ req[c].input.ntok + 2 = ContextLength
                       /\ resp[c].status_code = 200

\* C4: whatever was handled before, GET /health answers 200 with status
\* "healthy", the device chosen at startup and model "ViT-B/32".
C4_HealthAlways ==
    \A c \in Clients : (Done(c) /\ req[c].path = "/health") =>
        resp[c] = [status_code |-> 200,
                   body |-> [status |-> "healthy",
                             device |-> IF cuda_available THEN "cuda" ELSE "cpu",
                             model |-> "ViT-B/32"]]

\* A health check handled after some request had been answered 422.
C4_Witness ==
    \E c \in Clients : Done(c) /\ req[c].path = "/health" /\ local[c].after_failure

\* What the download ended in: the class of the error, or the status.
DownloadCause(c) ==
    IF local[c].fetched.kind = "error" THEN local[c].fetched.exc.class
    ELSE ToString(local[c].fetched.status_code)
\* No inference on what was fetched, and a 422 that reports what was raised.
DownloadRejected(c) ==
    /\ pc[c] # "inference"
    /\ Done(c) => /\ resp[c].status_code = 422
                  /\ resp[c].body.detail = Str(local[c].raised.msg)
Fetched(c) == IsPost(c) /\ req[c].type = "image_url" /\ local[c].fetched.type # "none"

\* C7 as stated: a download that ends in a network error, a timeout or a
\* response whose status is not 2xx never reaches inference and is answered
\* 422 with the cause in the detail.
C7_Original ==
    \A c \in Clients :
        (Fetched(c) /\ (local[c].fetched.kind = "error"
                        \/ local[c].fetched.status_code \notin 200..299))
        => DownloadRejected(c)

\* C7 amended: a download that ends in a network error, a timeout or a
\* response whose status is 4xx or 5xx never reaches inference and is answered
\* 422 with the cause (the error, or the status) in the detail.
C7_DownloadFailure ==
    \A c \in Clients :
        (Fetched(c) /\ (local[c].fetched.kind = "error"
                        \/ local[c].fetched.status_code \in 400..599))
        => /\ DownloadRejected(c)
           /\ Done(c) => /\ Mentions(resp[c].body.detail, "Error downloading image")
                         /\ Mentions(resp[c].body.detail, DownloadCause(c))

\* A 404 whose body is a well-formed image has been answered.
C7_Witness ==
    \E c \in Clients : Fetched(c) /\ Done(c) /\ local[c].fetched.kind = "response"
                       /\ local[c].fetched.status_code = 404
                       /\ local[c].fetched.content = <<255>>

\* C8: two answered text requests with the same input carry the same
\* response, whatever was handled before or between them.
C8_Stateless ==
    \A c, d \in Clients :
        (IsPost(c) /\ Done(c) /\ IsPost(d) /\ Done(d)
         /\ req[c].type = "text" /\ req[d] = req[c])
        => resp[c] = resp[d]

\* The same text embedded twice, once before and once after a request that
\* was answered 422.
C8_Witness ==
    \E c, d \in Clients :
        /\ c # d /\ IsPost(c) /\ Done(c) /\ IsPost(d) /\ Done(d)
        /\ req[c].type = "text" /\ req[d] = req[c]
        /\ resp[c].status_code = 200 /\ resp[d].status_code = 200
        /\ local[c].after_failure /\ ~local[d].after_failure

\* C10 as stated: the service does not serialize requests: the oldest waiting
\* request can enter its handler whatever the other requests are doing.
C10_Original ==
    \A c \in Clients : (queue # <<>> /\ Head(queue) = c) => ENABLED Begin(c)

\* C10 amended: at most one request is inside a download or an inference at
\* any time, and a request inside inference stays there until it is answered.
C10_OneAtATime ==
    [][/\ Cardinality({c \in Clients : pc[c] \in {"download", "inference"}}) <= 1
       /\ \A c \in Clients : pc[c] = "inference" =>
              \/ pc'[c] = "inference" /\ req'[c] = req[c] /\ local'[c] = local[c]
              \/ pc'[c] = "done" /\ req'[c] = req[c] /\ resp'[c] # None]_vars

\* A request waits while another is inside inference.
C10_Witness ==
    \E c, d \in Clients : pc[c] = "inference" /\ pc[d] = "received"

\* ------------------------------------------------------------ SpecB64
\* Two image_base64 requests on a machine without accelerator: client 1
\* sends a payload, client 2 the same payload behind a data-URL header that
\* ends in "base64,".

Base64Request(s) ==
    [method |-> "POST", path |-> "/embeddings", type |-> "image_base64", input |-> s]

InitB64 ==
    /\ cuda_available = FALSE
    /\ device = "cpu"
    /\ model = 0
    /\ \E p \in SeqsUpTo(PayloadChars, MaxB64Len), h \in SeqsUpTo(PayloadChars, MaxPrefixLen) :
         req = [c \in Clients |->
                  IF c = 1 THEN Base64Request(p)
                  ELSE IF c = 2 THEN Base64Request(h \o <<Marker>> \o p)
                  ELSE None]
    /\ pc = [c \in Clients |-> IF c \in {1, 2} THEN "received" ELSE "idle"]
    /\ local = [c \in Clients |-> NoLocal]
    /\ resp = [c \in Clients |-> None]
    /\ queue = <<1, 2>>
    /\ waited = 0
    /\ latency = [c \in Clients |-> 0]
    /\ any_failed = FALSE

NextB64 ==
    \/ \E c \in Clients : Begin(c)
    \/ \E c \in Clients : Infer(c)

SpecB64 == InitB64 /\ [][NextB64]_vars

\* The payload of client 1's request.
Payload == req[1].input
Count(s, S) == Cardinality({i \in 1..Len(s) : s[i] \in S})

\* C5: the payload alone and the payload behind a header ending in "base64,"
\* decode to the same image bytes (or raise the same error) and are answered
\* with identical responses.
C5_PrefixStripped ==
    /\ (pc[1] # "received" /\ pc[2] # "received") => local[1].prepared = local[2].prepared
    /\ (Done(1) /\ Done(2)) => (local[1].raised = local[2].raised /\ resp[1] = resp[2])

\* Both requests answered 200, the second one sent with a non-empty header.
C5_Witness ==
    /\ Done(1) /\ Done(2)
    /\ resp[1].status_code = 200 /\ resp[2].status_code = 200
    /\ req[2].input[1] # Marker

\* Well-formed base64: alphabet characters only, in groups of four, the last
\* group ending in at most two pad characters.
WellFormed(s) ==
    /\ \A i \in 1..Len(s) : s[i] \in DigitChars \cup {Pad}
    /\ Len(s) % 4 = 0
    /\ \A i \in 1..Len(s) : s[i] = Pad => (i > Len(s) - 2 /\ \A j \in i..Len(s) : s[j] = Pad)

TimedRequests ==
    {r \in BackgroundRequests : r.type \in {"text", "image_url"}}

\* Start on a machine without accelerator.
InitTimed == Init /\ ~cuda_available

NextTimed ==
    \/ \E c \in Clients : \E r \in TimedRequests : Receive(c, r)
    \/ \E c \in Clients : Begin(c)
    \/ Clock(TRUE)
    \/ \E c \in Clients : DownloadReturn(c)
    \/ \E c \in Clients : Infer(c)

FairSpec ==
    /\ InitTimed /\ [][NextTimed]_vars
    /\ WF_vars(Clock(TRUE))
    /\ \A c \in Clients :
          WF_vars(Begin(c)) /\ WF_vars(DownloadReturn(c)) /\ WF_vars(Infer(c))

ToUnreachable(c) == IsPost(c) /\ req[c].type = "image_url" /\ Unreachable(req[c].input)

\* C9 as stated: a request for an unreachable host is answered within about
\* the timeout of its arrival (here, generously: in less than twice the
\* timeout).
C9_Original ==
    \A c \in Clients : ToUnreachable(c) => latency[c] < 2 * TIMEOUT

\* C9 amended: when the handlers ahead of it end, a request for an
\* unreachable host is eventually answered 422, and its own requests.get never
\* blocks for more than TIMEOUT seconds.
C9_EventuallyAnswered ==
    /\ \A c \in Clients :
          (ToUnreachable(c) /\ pc[c] = "received")
              ~> (Done(c) /\ resp[c].status_code = 422)
    /\ [](\A c \in Clients : (ToUnreachable(c) /\ pc[c] = "download") => waited <= TIMEOUT)
    /\ [](\A c \in Clients : (ToUnreachable(c) /\ Done(c)) => resp[c].status_code = 422)

\* A request for an unreachable host answered 422 after its connection
\* attempt ran into the timeout.
C9_Witness ==
    \E c \in Clients : /\ ToUnreachable(c) /\ Done(c) /\ resp[c].status_code = 422
                       /\ local[c].fetched.exc.class = "ConnectTimeout"
                       /\ \E d \in Clients : pc[d] = "received" /\ latency[d] >= TIMEOUT
====
